---- MODULE Spec2Model ----
(***************************************************************************)
(* Request dispatch and validation pipeline of the generated axum server   *)
(* (backend-rust-axum/src/server/mod.rs).  One request slot runs the       *)
(* per-endpoint handler function: axum extractors, authentication,         *)
(* validation on a blocking worker, the Handler Contract call, and the     *)
(* mapping of the handler's result to an HTTP response.                    *)
(***************************************************************************)
EXTENDS Integers, Sequences, FiniteSets, TLC

VARIABLES
    pc,          \* position of the request in its handler function
    req,         \* the inbound request (raw header, path, query, body)
    params,      \* the extracted ParameterSet (path_params, query_params, body)
    claims,      \* Option<Claims> returned by extract_claims_from_header
    verrs,       \* ValidationErrors of the *_validation call (set of fields)
    outcome,     \* Result<XxxResponse, ()> returned by the Handler Contract
    builder,     \* the Response::builder() under construction
    resp,        \* the HTTP response of the request
    trace,       \* stages the request went through, in order
    authCalls,   \* calls of extract_claims_from_header for this request
    validationRuns, \* runs of the *_validation function for this request
    invoked,     \* Handler Contract calls of this request, with arguments
    serRuns,     \* runs of serde_json::to_vec for this request
    task,        \* the request's closure on the blocking pool, until it finishes
    rt           \* a value on its way from a client through the JSON codecs and back

vars == <<pc, req, params, claims, verrs, outcome, builder, resp, trace,
          authCalls, validationRuns, invoked, serRuns, task, rt>>

----------------------------------------------------------------------------
(* Bounds *)

\* raw numeric query tokens range over -MaxNum..MaxNum plus the i32 edges
MaxNum == 1

\* number of distinct payload values a handler may return
MaxPayload == 2

\* the number of comma-separated pieces of an input text of FromStr
MaxTokens == 4

\* the number of leading keys of a model the input texts use
MaxKeys == 2

----------------------------------------------------------------------------
(* Route table *)

None == "None"

Ops ==
    { "create_article", "delete_article", "get_article", "get_articles",
      "get_articles_feed", "update_article", "create_article_comment",
      "delete_article_comment", "get_article_comments",
      "create_article_favorite", "delete_article_favorite",
      "follow_user_by_username", "get_profile_by_username",
      "unfollow_user_by_username", "get_tags", "create_user",
      "get_current_user", "login", "update_current_user" }

\* handler functions that start with the "// Authentication" block
AuthOps ==
    { "create_article", "delete_article", "get_articles_feed",
      "update_article", "create_article_comment", "delete_article_comment",
      "create_article_favorite", "delete_article_favorite",
      "follow_user_by_username", "unfollow_user_by_username",
      "get_current_user", "update_current_user" }

\* a route table in which every route authenticates
AuthRequired_All(op) == TRUE

AuthRequired(op) == op \in AuthOps

\* handler functions with a Path(path_params) argument
PathOps ==
    { "delete_article", "get_article", "update_article",
      "create_article_comment", "delete_article_comment",
      "get_article_comments", "create_article_favorite",
      "delete_article_favorite", "follow_user_by_username",
      "get_profile_by_username", "unfollow_user_by_username" }

\* handler functions with a Query(query_params) argument
QueryOps == { "get_articles", "get_articles_feed" }

\* handler functions with a Json(body) argument
BodyOps ==
    { "create_article", "update_article", "create_article_comment",
      "create_user", "login", "update_current_user" }

StrFields == { "tag", "author", "favorited" }
NumFields == { "offset", "limit" }

\* numeric query fields of the operation's query struct
QueryNumFields(op) == IF op \in QueryOps THEN NumFields ELSE {}

----------------------------------------------------------------------------
(* Outcome enums and the response mapper's tables *)

PayloadVariants ==
    { "Status201_SingleArticle", "Status200_SingleArticle",
      "Status200_MultipleArticles", "Status200_SingleComment",
      "Status200_MultipleComments", "Status200_Profile", "Status200_Tags",
      "Status201_User", "Status200_User", "Status422_UnexpectedError" }

EmptyVariants == { "Status200_NoContent", "Status401_Unauthorized" }

\* the success variant of each operation's response enum
SuccessVariant(op) ==
    CASE op = "create_article" -> "Status201_SingleArticle"
      [] op \in {"delete_article", "delete_article_comment"} -> "Status200_NoContent"
      [] op \in {"get_article", "update_article", "create_article_favorite",
                 "delete_article_favorite"} -> "Status200_SingleArticle"
      [] op \in {"get_articles", "get_articles_feed"} -> "Status200_MultipleArticles"
      [] op = "create_article_comment" -> "Status200_SingleComment"
      [] op = "get_article_comments" -> "Status200_MultipleComments"
      [] op \in {"follow_user_by_username", "get_profile_by_username",
                 "unfollow_user_by_username"} -> "Status200_Profile"
      [] op = "get_tags" -> "Status200_Tags"
      [] op = "create_user" -> "Status201_User"
      [] OTHER -> "Status200_User"

\* operations whose response enum has no Status401_Unauthorized variant
No401Ops == { "get_article", "get_tags", "create_user" }

\* the declared variants of the operation's response enum
Variants(op) ==
    { SuccessVariant(op), "Status422_UnexpectedError" }
        \cup (IF op \in No401Ops THEN {} ELSE { "Status401_Unauthorized" })

\* a mapper that answers every declared error variant with 200
StatusOf_AlwaysOk(v) ==
    CASE v \in {"Status201_SingleArticle", "Status201_User"} -> 201
      [] OTHER -> 200

\* response.status(N) of the match arm of variant v
StatusOf(v) ==
    CASE v \in {"Status201_SingleArticle", "Status201_User"} -> 201
      [] v = "Status401_Unauthorized" -> 401
      [] v = "Status422_UnexpectedError" -> 422
      [] OTHER -> 200

\* a mapper that treats Status422_UnexpectedError as body-less
HasPayload_No422(v) == v \in PayloadVariants \ { "Status422_UnexpectedError" }

\* a mapper whose Status401_Unauthorized arm writes a JSON body
HasPayload_With401(v) == v \in PayloadVariants \cup { "Status401_Unauthorized" }

\* the match arm of variant v binds a payload (`(body)`)
HasPayload(v) == v \in PayloadVariants

\* a payload for which serde_json::to_vec returns Err
Unencodable == -1

Payloads == 1..MaxPayload

\* what the Handler Contract may return for the operation
HandlerResults(op) ==
    { [ok |-> FALSE, variant |-> "Err", payload |-> 0] }
        \cup { [ok |-> TRUE, variant |-> v, payload |-> 0] :
                 v \in Variants(op) \cap EmptyVariants }
        \cup { [ok |-> TRUE, variant |-> v, payload |-> p] :
                 v \in Variants(op) \cap PayloadVariants,
                 p \in Payloads \cup {Unencodable} }

NoOutcome == [ok |-> FALSE, variant |-> None, payload |-> 0]

----------------------------------------------------------------------------
(* Authentication provider *)

Headers == { "missing", "malformed", "invalid", "bearer-a", "bearer-b" }

\* extract_claims_from_header(&headers, "Authorization"): None if the claims
\* are invalid
ExtractClaimsFromHeader(h) ==
    CASE h = "bearer-a" -> "claims-a"
      [] h = "bearer-b" -> "claims-b"
      [] OTHER -> None

----------------------------------------------------------------------------
(* Typed parameter extractors (the handler functions' axum arguments) *)

I32Max == 2147483647
I32Min == -I32Max - 1

Absent == <<"absent", 0>>
Garbage == <<"text", 0>>

\* decimals that do not fit in an i32
TooSmall == <<"below-i32", 0>>
TooLarge == <<"above-i32", 0>>

\* raw values of a numeric query key: absent, not a number, or a decimal
RawNums ==
    { Absent, Garbage, TooSmall, TooLarge }
        \cup { <<"int", n>> : n \in (-MaxNum..MaxNum) \cup {I32Min, I32Max} }

NoneNum == <<"None", 0>>
SomeNum(n) == <<"Some", n>>

\* deserialization of one Option<i32> query field
ParseOptI32(tok) ==
    CASE tok[1] = "absent" -> [ok |-> TRUE, val |-> NoneNum]
      [] tok[1] = "int" -> [ok |-> TRUE, val |-> SomeNum(tok[2])]
      [] OTHER -> [ok |-> FALSE, val |-> NoneNum]

NoPath == "-"
RawPaths == { "slug-a", "slug-b", "%ff" }

NoBody == "-"
\* a request body: two decodable JSON documents, a syntax error, a document
\* with a value of the wrong type, a document that lacks a field the request
\* type requires, a body sent without a JSON content type, and a body longer
\* than the extractor's body limit
RawBodies ==
    { "doc-a", "doc-b", "syntax", "data", "missing-field", "no-content-type",
      "too-large" }

NoQueryStr == [f \in StrFields |-> None]
NoQueryNum == [f \in NumFields |-> Absent]

\* the requests a client can send to the route of operation op
Requests(op) ==
    { [op |-> op, hdr |-> h, path |-> p, qstr |-> qs, qnum |-> qn, body |-> b] :
        h \in Headers,
        p \in (IF op \in PathOps THEN RawPaths ELSE {NoPath}),
        qs \in (IF op = "get_articles" THEN [StrFields -> {None, "x"}] ELSE {NoQueryStr}),
        qn \in (IF op \in QueryOps THEN [NumFields -> RawNums] ELSE {NoQueryNum}),
        b \in (IF op \in BodyOps THEN RawBodies ELSE {NoBody}) }

NoRequest ==
    [op |-> None, hdr |-> "missing", path |-> NoPath, qstr |-> NoQueryStr,
     qnum |-> NoQueryNum, body |-> NoBody]

NoParams ==
    [path |-> NoPath, qstr |-> NoQueryStr,
     qnum |-> [f \in NumFields |-> NoneNum], body |-> NoBody]

\* Path<XxxPathParams>: fails on a segment that does not decode
PathRejected(r) == r.op \in PathOps /\ r.path = "%ff"

\* Query<XxxQueryParams>: fails when a numeric field does not parse as i32
QueryRejected(r) ==
    \E f \in QueryNumFields(r.op) : ~ParseOptI32(r.qnum[f]).ok

\* a decoder that fills in what it cannot decode and lets the body through
JsonRejection_Lenient(r) ==
    CASE r.op \notin BodyOps -> None
      [] r.body = "no-content-type" -> "MissingJsonContentType"
      [] r.body = "too-large" -> "LengthLimitError"
      [] r.body = "syntax" -> "JsonSyntaxError"
      [] OTHER -> None

\* Json<XxxRequest>: the rejection of the body, or None.  The request types
\* derive serde::Deserialize with no default on their required fields, so a
\* missing field is a data error of the extractor
JsonRejection(r) ==
    CASE r.op \notin BodyOps -> None
      [] r.body = "no-content-type" -> "MissingJsonContentType"
      [] r.body = "too-large" -> "LengthLimitError"
      [] r.body = "syntax" -> "JsonSyntaxError"
      [] r.body \in {"data", "missing-field"} -> "JsonDataError"
      [] OTHER -> None

\* the first rejection among the function's extractor arguments, in argument
\* order (Path or Query before the body-consuming Json), or None
Rejection(r) ==
    CASE PathRejected(r) -> "PathRejection"
      [] QueryRejected(r) -> "QueryRejection"
      [] OTHER -> JsonRejection(r)

\* extractors that answer every rejection with 400
RejectionStatus_All400(k) == 400

\* the status of the rejection: axum answers a body without a JSON content
\* type with 415, a JSON document that does not deserialize into the target
\* type with 422, a body over the length limit with 413, and every other
\* rejection with 400
RejectionStatus(k) ==
    CASE k = "MissingJsonContentType" -> 415
      [] k = "LengthLimitError" -> 413
      [] k = "JsonDataError" -> 422
      [] OTHER -> 400

\* the typed ParameterSet of a request whose extractors all succeed
Extracted(r) ==
    [path |-> r.path,
     qstr |-> r.qstr,
     qnum |-> [f \in NumFields |-> ParseOptI32(r.qnum[f]).val],
     body |-> r.body]

----------------------------------------------------------------------------
(* Validation layer *)

\* bounds that are one too low
RangeMin_OneLower(f) == IF f = "offset" THEN -1 ELSE 0

\* bounds that exclude the minimum itself
RangeMin_Exclusive(f) == IF f = "offset" THEN 1 ELSE 2

\* #[validate(range(min = ..))] of the numeric query fields
RangeMin(f) == IF f = "offset" THEN 0 ELSE 1

\* a derive that stops at the first field in error
ValidateQuery_FirstOnly(op, q) ==
    LET bad == { f \in QueryNumFields(op) : q[f][1] = "Some" /\ q[f][2] < RangeMin(f) }
    IN  IF "offset" \in bad THEN {"offset"} ELSE bad

\* derived Validate of XxxQueryParams: every field's range is checked and
\* each failing field gets an entry
ValidateQuery(op, q) ==
    { f \in QueryNumFields(op) : q[f][1] = "Some" /\ q[f][2] < RangeMin(f) }

\* derived Validate of the XxxPathParams structs: no constraint is declared
ValidatePath(op, p) == {}

\* request models with a constraint that some decoded bodies fail
ValidateBody_Constrained(op, b) == IF b = "doc-b" THEN {"body"} ELSE {}

\* derived Validate of XxxBodyValidator { #[validate(nested)] body }: the
\* request models declare no constraint
ValidateBody(op, b) == {}

\* xxx_validation: path_params.validate()?; b.validate()?; query_params.validate()?
Validation(op, ps) ==
    IF ValidatePath(op, ps.path) # {} THEN ValidatePath(op, ps.path)
    ELSE IF ValidateBody(op, ps.body) # {} THEN ValidateBody(op, ps.body)
    ELSE ValidateQuery(op, ps.qnum)

ErrLine(f) ==
    IF f = "offset" THEN "offset: Validation error: range"
    ELSE "limit: Validation error: range"

\* ValidationErrors::to_string(): one line per field of the error map, in the
\* map's iteration order
ErrTexts(errs) ==
    { [i \in 1..Cardinality(errs) |-> ErrLine(s[i])] :
        s \in { t \in [1..Cardinality(errs) -> errs] :
                  \A f \in errs : \E i \in 1..Cardinality(errs) : t[i] = f } }

----------------------------------------------------------------------------
(* Responses *)

JsonHeader == <<"content-type", "application/json">>
TextHeader == <<"content-type", "text/plain; charset=utf-8">>

EmptyBody == <<>>

\* serde_json::to_vec(&body) returns Ok
Encodes(p) == p # Unencodable

\* a serializer that loses the end of the document
ToVec_Truncated(p) == <<"{", ToString(p)>>

\* the bytes of serde_json::to_vec(&body) of a payload
ToVec(p) == <<"{", ToString(p), "}">>

\* serde_json::from_slice of a response body into the payload's type (the
\* serde::Deserialize derive of the model): a complete document of a payload
\* gives that payload, anything else is an error
FromSlice(b) ==
    IF /\ Len(b) = 3 /\ b[1] = "{" /\ b[3] = "}"
       /\ \E p \in Payloads : ToString(p) = b[2]
    THEN [ok |-> TRUE, val |-> CHOOSE p \in Payloads : ToString(p) = b[2]]
    ELSE [ok |-> FALSE, val |-> 0]

NoResponse == [status |-> 0, headers |-> {}, body |-> EmptyBody, via |-> None]
NoBuilder == [status |-> 0, headers |-> {}]

Response(status, headers, body, via) ==
    [status |-> status, headers |-> headers, body |-> body, via |-> via]

----------------------------------------------------------------------------
(* The JSON codecs of the article models (models.rs), and a value making the
   trip client -> create_article -> handler -> response -> client *)

Texts == { "x", "y" }
TagLists == { <<>>, <<"t">> }

NoneTags == <<"None", <<>>>>
SomeTags(l) == <<"Some", l>>

\* models::NewArticle: three required strings and tag_list: Option<Vec<String>>
NewArticles ==
    [title : Texts, description : Texts, body : Texts,
     tag_list : {NoneTags} \cup { SomeTags(l) : l \in TagLists }]

\* serde::Serialize of CreateArticleRequest { article: NewArticle }: tagList
\* is skipped when tag_list is None.  A JSON object is its root key, the set
\* of member names it has, and the members' values
ToJsonNewArticle(na) ==
    [root |-> "article",
     keys |-> {"title", "description", "body"}
                \cup (IF na.tag_list[1] = "Some" THEN {"tagList"} ELSE {}),
     val |-> [title |-> na.title, description |-> na.description,
              body |-> na.body, tagList |-> na.tag_list[2]]]

\* serde::Deserialize of CreateArticleRequest, as Json<..> runs it: a missing
\* String member is an error, a missing Option member is None
FromJsonNewArticle(doc) ==
    IF doc.root = "article" /\ {"title", "description", "body"} \subseteq doc.keys
    THEN [ok |-> TRUE,
          val |-> [title |-> doc.val.title, description |-> doc.val.description,
                   body |-> doc.val.body,
                   tag_list |-> IF "tagList" \in doc.keys
                                THEN SomeTags(doc.val.tagList) ELSE NoneTags]]
    ELSE [ok |-> FALSE, val |-> "missing field"]

\* the stub handler of the round trip: the created Article repeats the
\* submitted values, an absent tag list becomes the empty list, and the
\* remaining fields are fixed
EchoArticle(na) ==
    [slug |-> "slug-a", title |-> na.title, description |-> na.description,
     body |-> na.body,
     tag_list |-> IF na.tag_list[1] = "Some" THEN na.tag_list[2] ELSE <<>>,
     created_at |-> "t0", updated_at |-> "t0", favorited |-> FALSE,
     favorites_count |-> 0, author |-> "author-a"]

\* the members of models::Article on the wire
ArticleKeys ==
    { "slug", "title", "description", "body", "tagList", "createdAt",
      "updatedAt", "favorited", "favoritesCount", "author" }

ArticleVal(a) ==
    [slug |-> a.slug, title |-> a.title, description |-> a.description,
     body |-> a.body, tagList |-> a.tag_list, createdAt |-> a.created_at,
     updatedAt |-> a.updated_at, favorited |-> a.favorited,
     favoritesCount |-> a.favorites_count, author |-> a.author]

\* an Article whose tagList is skipped when it is empty
ToJsonArticle_SkipEmptyTags(a) ==
    [root |-> "article",
     keys |-> ArticleKeys \ (IF a.tag_list = <<>> THEN {"tagList"} ELSE {}),
     val |-> ArticleVal(a)]

\* serde::Serialize of CreateArticle201Response { article: Article }: every
\* member is written, tagList too when the list is empty
ToJsonArticle(a) ==
    [root |-> "article", keys |-> ArticleKeys, val |-> ArticleVal(a)]

\* serde::Deserialize of CreateArticle201Response: every member is required
FromJsonArticle(doc) ==
    IF doc.root = "article" /\ ArticleKeys \subseteq doc.keys
    THEN [ok |-> TRUE,
          val |-> [slug |-> doc.val.slug, title |-> doc.val.title,
                   description |-> doc.val.description, body |-> doc.val.body,
                   tag_list |-> doc.val.tagList,
                   created_at |-> doc.val.createdAt,
                   updated_at |-> doc.val.updatedAt,
                   favorited |-> doc.val.favorited,
                   favorites_count |-> doc.val.favoritesCount,
                   author |-> doc.val.author]]
    ELSE [ok |-> FALSE, val |-> "missing field"]

NoRoundTrip == [stage |-> "none", sent |-> "-", val |-> "-"]

----------------------------------------------------------------------------
(* The string conversions of the models (models.rs): Display prints a value
   as "key,value,key,value,..", FromStr reads that form back.  A string is
   the sequence of its letters; the letter "," is the separator, every
   other letter is a word standing for a comma-free piece of text *)

Comma == ","

\* s.split(','): the pieces between the commas, one piece more than there
\* are commas, so the empty string gives one empty piece
RECURSIVE Split(_)
Split_Empty(s) == IF s = <<>> THEN <<>> ELSE <<s>>

Split(s) ==
    IF \A i \in 1..Len(s) : s[i] # Comma
    THEN <<s>>
    ELSE LET i == CHOOSE j \in 1..Len(s) :
                      s[j] = Comma /\ \A k \in 1..(j - 1) : s[k] # Comma
         IN  <<SubSeq(s, 1, i - 1)>> \o Split(SubSeq(s, i + 1, Len(s)))

\* [..].join(","): no piece gives the empty string
RECURSIVE Join(_)
Join(ps) ==
    IF ps = <<>> THEN <<>>
    ELSE IF Len(ps) = 1 THEN ps[1]
    ELSE ps[1] \o <<Comma>> \o Join(Tail(ps))

\* a field of a model: its key in the string form, the type FromStr parses
\* its value as (a model's name for a nested model, "container" for a Vec),
\* whether the struct field is not an Option, and whether Display prints it
Field(key, kind, required, shown) ==
    [key |-> key, kind |-> kind, required |-> required, shown |-> shown]

Str(key) == Field(key, "String", TRUE, TRUE)
OptStr(key) == Field(key, "String", FALSE, TRUE)
Skipped(key, kind) == Field(key, kind, TRUE, FALSE)

Models ==
    {"Article", "Comment", "CreateArticle201Response",
     "CreateArticleComment200Response", "CreateArticleCommentRequest",
     "CreateArticleRequest", "CreateUserRequest", "GenericErrorModel",
     "GenericErrorModelErrors", "GetArticleComments200Response",
     "GetArticlesFeed200Response", "GetArticlesFeed200ResponseArticlesInner",
     "GetProfileByUsername200Response", "GetTags200Response",
     "Login200Response", "LoginRequest", "LoginUser", "NewArticle",
     "NewComment", "NewUser", "Profile", "UpdateArticle",
     "UpdateArticleRequest", "UpdateCurrentUserRequest", "UpdateUser", "User"}

\* the fields of each model in the order the struct declares them
Schema(m) ==
    CASE m = "Article" ->
           <<Str("slug"), Str("title"), Str("description"), Str("body"),
             Field("tagList", "container", TRUE, TRUE),
             Skipped("createdAt", "DateTime"), Skipped("updatedAt", "DateTime"),
             Field("favorited", "bool", TRUE, TRUE),
             Field("favoritesCount", "i32", TRUE, TRUE),
             Skipped("author", "Profile")>>
      [] m = "Comment" ->
           <<Field("id", "i32", TRUE, TRUE),
             Skipped("createdAt", "DateTime"), Skipped("updatedAt", "DateTime"),
             Str("body"), Skipped("author", "Profile")>>
      [] m = "CreateArticle201Response" -> <<Skipped("article", "Article")>>
      [] m = "CreateArticleComment200Response" -> <<Skipped("comment", "Comment")>>
      [] m = "CreateArticleCommentRequest" -> <<Skipped("comment", "NewComment")>>
      [] m = "CreateArticleRequest" -> <<Skipped("article", "NewArticle")>>
      [] m = "CreateUserRequest" -> <<Skipped("user", "NewUser")>>
      [] m = "GenericErrorModel" -> <<Skipped("errors", "GenericErrorModelErrors")>>
      [] m = "GenericErrorModelErrors" -> <<Field("body", "container", TRUE, TRUE)>>
      [] m = "GetArticleComments200Response" -> <<Skipped("comments", "container")>>
      [] m = "GetArticlesFeed200Response" ->
           <<Skipped("articles", "container"),
             Field("articlesCount", "i32", TRUE, TRUE)>>
      [] m = "GetArticlesFeed200ResponseArticlesInner" ->
           <<Str("slug"), Str("title"), Str("description"),
             Field("tagList", "container", TRUE, TRUE),
             Skipped("createdAt", "DateTime"), Skipped("updatedAt", "DateTime"),
             Field("favorited", "bool", TRUE, TRUE),
             Field("favoritesCount", "i32", TRUE, TRUE),
             Skipped("author", "Profile")>>
      [] m = "GetProfileByUsername200Response" -> <<Skipped("profile", "Profile")>>
      [] m = "GetTags200Response" -> <<Field("tags", "container", TRUE, TRUE)>>
      [] m = "Login200Response" -> <<Skipped("user", "User")>>
      [] m = "LoginRequest" -> <<Skipped("user", "LoginUser")>>
      [] m = "LoginUser" -> <<Str("email"), Str("password")>>
      [] m = "NewArticle" ->
           <<Str("title"), Str("description"), Str("body"),
             Field("tagList", "container", FALSE, TRUE)>>
      [] m = "NewComment" -> <<Str("body")>>
      [] m = "NewUser" -> <<Str("username"), Str("email"), Str("password")>>
      [] m = "Profile" ->
           <<Str("username"), Str("bio"), Str("image"),
             Field("following", "bool", TRUE, TRUE)>>
      [] m = "UpdateArticle" ->
           <<OptStr("title"), OptStr("description"), OptStr("body")>>
      [] m = "UpdateArticleRequest" -> <<Skipped("article", "UpdateArticle")>>
      [] m = "UpdateCurrentUserRequest" -> <<Skipped("user", "UpdateUser")>>
      [] m = "UpdateUser" ->
           <<OptStr("email"), OptStr("password"), OptStr("username"),
             OptStr("bio"), OptStr("image")>>
      [] m = "User" ->
           <<Str("email"), Str("token"), Str("username"), Str("bio"),
             Str("image")>>

Keys(m) == { Schema(m)[i].key : i \in 1..Len(Schema(m)) }

\* the match on the key: a piece is a key when it is exactly the key's word
IsKey(m, piece) == \E i \in 1..Len(Schema(m)) : <<Schema(m)[i].key>> = piece

FieldOf(m, piece) ==
    Schema(m)[CHOOSE i \in 1..Len(Schema(m)) : <<Schema(m)[i].key>> = piece]

\* Option<T>
NoneOf == <<"None">>
SomeOf(x) == <<"Some", x>>

\* the values FromStr and Display return
Ok(v) == [ok |-> TRUE, val |-> v]
Err(e) == [ok |-> FALSE, val |-> e]

\* the error texts of FromStr
MissingValue(m) == <<"Missing value while parsing", m>>
UnexpectedKey(m) == <<"Unexpected key while parsing", m>>
ContainerUnsupported(m) ==
    <<"Parsing a container in this style is not supported in", m>>
FieldMissing(key, m) == <<key, "missing in", m>>

\* an i32 and a DateTime<Utc> that print as one word each
Counts == {0, 1}
Instant == "2024-01-01T00:00:00Z"

\* x.to_string() of a field's value; a container prints its items joined
\* by commas
ToStr(kind, x) ==
    CASE kind = "String" -> x
      [] kind = "bool" -> IF x THEN <<"true">> ELSE <<"false">>
      [] kind = "i32" -> <<ToString(x)>>
      [] kind = "container" -> Join(x)

\* the entries one field adds to Display's params vector: nothing for a
\* skipped field or an Option that is None
FieldParams(f, x) ==
    IF ~f.shown THEN <<>>
    ELSE IF f.required THEN <<<<f.key>>, ToStr(f.kind, x)>>
    ELSE IF x = NoneOf THEN <<>>
    ELSE <<Join(<<<<f.key>>, ToStr(f.kind, x[2])>>)>>

RECURSIVE Params(_, _, _)
Params(m, v, i) ==
    IF i > Len(Schema(m)) THEN <<>>
    ELSE FieldParams(Schema(m)[i], v[Schema(m)[i].key]) \o Params(m, v, i + 1)

\* impl std::fmt::Display for <Model>
Display_SkipContainers(m, v) ==
    Join(Params(m, [k \in DOMAIN v |->
                      IF FieldOf(m, <<k>>).kind = "container" /\ ~FieldOf(m, <<k>>).required
                      THEN NoneOf ELSE v[k]], 1))

Display(m, v) == Join(Params(m, v, 1))

RECURSIVE FromStr(_, _)

\* <T as std::str::FromStr>::from_str(val).map_err(|x| x.to_string())
ParseValue_NonEmpty(kind, val) ==
    IF val = <<>> THEN Err(<<"empty">>)
    ELSE IF kind = "bool" THEN Ok(val = <<"true">>)
    ELSE Ok(val)

ParseValue(kind, val) ==
    CASE kind = "String" -> Ok(val)
      [] kind = "bool" ->
           IF val = <<"true">> THEN Ok(TRUE)
           ELSE IF val = <<"false">> THEN Ok(FALSE)
           ELSE Err(<<"provided string was not 'true' or 'false'">>)
      [] kind = "i32" ->
           IF \E n \in Counts : val = <<ToString(n)>>
           THEN Ok(CHOOSE n \in Counts : val = <<ToString(n)>>)
           ELSE IF val = <<>>
           THEN Err(<<"cannot parse integer from empty string">>)
           ELSE Err(<<"invalid digit found in string">>)
      [] kind = "DateTime" ->
           IF val = <<Instant>> THEN Ok(Instant) ELSE Err(<<"chrono::ParseError">>)
      [] kind \in Models -> FromStr(kind, val)

\* the struct built from the intermediate representation: the first pushed
\* value of each field, an error for the first required field without one
Build_LastWins(m, rep) ==
    LET sch == Schema(m)
        missing == { i \in 1..Len(sch) :
                        sch[i].required /\ Len(rep[sch[i].key]) = 0 }
    IN  IF missing # {}
        THEN Err(FieldMissing(
                   sch[CHOOSE i \in missing : \A j \in missing : i <= j].key, m))
        ELSE Ok([k \in Keys(m) |->
                   IF FieldOf(m, <<k>>).required THEN rep[k][Len(rep[k])]
                   ELSE IF Len(rep[k]) = 0 THEN NoneOf
                   ELSE SomeOf(rep[k][Len(rep[k])])])

Build(m, rep) ==
    LET sch == Schema(m)
        missing == { i \in 1..Len(sch) :
                        sch[i].required /\ Len(rep[sch[i].key]) = 0 }
    IN  IF missing # {}
        THEN Err(FieldMissing(
                   sch[CHOOSE i \in missing : \A j \in missing : i <= j].key, m))
        ELSE Ok([k \in Keys(m) |->
                   IF FieldOf(m, <<k>>).required THEN rep[k][1]
                   ELSE IF Len(rep[k]) = 0 THEN NoneOf ELSE SomeOf(rep[k][1])])

\* the while loop over string_iter: toks[i] is the key just taken from the
\* iterator, the value is taken next and the key is matched after that
RECURSIVE Scan(_, _, _, _)
Scan(m, toks, i, rep) ==
    IF i > Len(toks) THEN Build(m, rep)
    ELSE IF i + 1 > Len(toks) THEN Err(MissingValue(m))
    ELSE IF ~IsKey(m, toks[i]) THEN Err(UnexpectedKey(m))
    ELSE LET f == FieldOf(m, toks[i])
         IN  IF f.kind = "container" THEN Err(ContainerUnsupported(m))
             ELSE LET parsed == ParseValue(f.kind, toks[i + 1])
                  IN  IF ~parsed.ok THEN parsed
                      ELSE Scan(m, toks, i + 2,
                                [rep EXCEPT ![f.key] = Append(@, parsed.val)])

\* impl std::str::FromStr for <Model>
FromStr(m, s) == Scan(m, Split(s), 1, [k \in Keys(m) |-> <<>>])

----------------------------------------------------------------------------
(* The handler function of a route, one action per step between awaits *)

Slots == DOMAIN pc

Stage(s, name) == trace' = [trace EXCEPT ![s] = Append(@, name)]

\* a request reaches the route's handler function
Receive(s, r) ==
    /\ pc[s] = "Idle"
    /\ pc' = [pc EXCEPT ![s] = "Received"]
    /\ req' = [req EXCEPT ![s] = r]
    /\ trace' = [trace EXCEPT ![s] = <<"Received">>]
    /\ UNCHANGED <<params, claims, verrs, outcome, builder, resp, authCalls,
                   validationRuns, invoked, serRuns, task, rt>>

\* the extractor arguments (Path, Query, Json) run before the function body:
\* a rejection is the response, otherwise the body starts with typed values
Extract(s) ==
    /\ pc[s] = "Received"
    /\ IF Rejection(req[s]) # None
       THEN /\ resp' = [resp EXCEPT ![s] =
                   Response(RejectionStatus(Rejection(req[s])), {TextHeader},
                            <<Rejection(req[s])>>, "rejection")]
            /\ pc' = [pc EXCEPT ![s] = "ResponseBuilt"]
            /\ Stage(s, "ResponseBuilt")
            /\ UNCHANGED params
       ELSE /\ params' = [params EXCEPT ![s] = Extracted(req[s])]
            /\ pc' = [pc EXCEPT ![s] = "Extracted"]
            /\ Stage(s, "ParamsExtracted")
            /\ UNCHANGED resp
    /\ UNCHANGED <<req, claims, verrs, outcome, builder, authCalls,
                   validationRuns, invoked, serRuns, task, rt>>

\* a gate that lets a request without claims through
ClaimsPresent_Always(c) == TRUE

\* let Some(claims) = claims else { return 401 }
ClaimsPresent(c) == c # None

\* an authentication block that tells the client what was wrong with its
\* credentials
UnauthorizedResponse_Explains(r) ==
    Response(401, {TextHeader}, <<r.hdr>>, "auth")

\* Response::builder().status(StatusCode::UNAUTHORIZED).body(Body::empty()):
\* nothing of the request r goes into the response
UnauthorizedResponse(r) == Response(401, {}, EmptyBody, "auth")

\* "// Authentication": the provider is asked for the claims; without claims
\* the function returns 401 with an empty body
Authenticate(s) ==
    /\ pc[s] = "Extracted"
    /\ AuthRequired(req[s].op)
    /\ authCalls' = [authCalls EXCEPT ![s] = @ + 1]
    /\ claims' = [claims EXCEPT ![s] = ExtractClaimsFromHeader(req[s].hdr)]
    /\ IF ClaimsPresent(claims'[s])
       THEN /\ pc' = [pc EXCEPT ![s] = "AuthChecked"]
            /\ Stage(s, "AuthChecked")
            /\ UNCHANGED resp
       ELSE /\ resp' = [resp EXCEPT ![s] = UnauthorizedResponse(req[s])]
            /\ pc' = [pc EXCEPT ![s] = "ResponseBuilt"]
            /\ trace' = [trace EXCEPT ![s] = @ \o <<"AuthChecked", "ResponseBuilt">>]
    /\ UNCHANGED <<req, params, verrs, outcome, builder, validationRuns,
                   invoked, serRuns, task, rt>>

\* a function body that validates before its authentication block
ReadyToValidate_BeforeAuth(s) == pc[s] = "Extracted"

\* functions that all wait for claims before they validate
ReadyToValidate_AuthOnly(s) == pc[s] = "AuthChecked"

\* the function body has passed its authentication block, if it has one
ReadyToValidate(s) ==
    \/ pc[s] = "AuthChecked"
    \/ pc[s] = "Extracted" /\ ~AuthRequired(req[s].op)

\* tokio::task::spawn_blocking(move || xxx_validation(..)): the closure is
\* handed to the blocking pool and the function awaits its JoinHandle
SpawnValidation(s) ==
    /\ ReadyToValidate(s)
    /\ task' = [task EXCEPT ![s] = "validation"]
    /\ pc' = [pc EXCEPT ![s] = "Validating"]
    /\ UNCHANGED <<req, params, claims, verrs, outcome, builder, resp, trace,
                   authCalls, validationRuns, invoked, serRuns, rt>>

\* a validation function that leaves its result in a place shared by all
\* requests
RunValidation_Shared(s) ==
    /\ task[s] = "validation"
    /\ validationRuns' = [validationRuns EXCEPT ![s] = @ + 1]
    /\ verrs' = [t \in DOMAIN verrs |-> Validation(req[s].op, params[s])]
    /\ task' = [task EXCEPT ![s] = None]
    /\ UNCHANGED <<pc, req, params, claims, outcome, builder, resp, trace,
                   authCalls, invoked, serRuns, rt>>

\* a blocking worker runs the closure `move || xxx_validation(..)` to its end;
\* the closure belongs to the pool, not to the awaiting function
RunValidation(s) ==
    /\ task[s] = "validation"
    /\ validationRuns' = [validationRuns EXCEPT ![s] = @ + 1]
    /\ verrs' = [verrs EXCEPT ![s] = Validation(req[s].op, params[s])]
    /\ task' = [task EXCEPT ![s] = None]
    /\ UNCHANGED <<pc, req, params, claims, outcome, builder, resp, trace,
                   authCalls, invoked, serRuns, rt>>

\* a check that takes every validation result for Ok
ValidationOk_Always(errs) == TRUE

\* `let Ok(..) = validation`
ValidationOk(errs) == errs = {}

\* a validation that fills in a page size when the client gave none
ValidationOutput_Defaults(op, ps) ==
    [ps EXCEPT !.qnum["limit"] = IF @ = NoneNum THEN SomeNum(1) ELSE @]

\* Ok((path_params, query_params, body)) of xxx_validation: the values it
\* was given, moved back to the caller
ValidationOutput(op, ps) == ps

\* .await.unwrap() and `let Ok((..)) = validation else { return 400 }`: on
\* success the parameters are rebound to what the validation returned
JoinValidation(s) ==
    /\ pc[s] = "Validating"
    /\ task[s] = None
    /\ IF ValidationOk(verrs[s])
       THEN /\ pc' = [pc EXCEPT ![s] = "Validated"]
            /\ params' = [params EXCEPT ![s] = ValidationOutput(req[s].op, @)]
            /\ Stage(s, "Validated")
            /\ UNCHANGED resp
       ELSE /\ \E text \in ErrTexts(verrs[s]) :
                   resp' = [resp EXCEPT ![s] = Response(400, {}, text, "validation")]
            /\ pc' = [pc EXCEPT ![s] = "ResponseBuilt"]
            /\ trace' = [trace EXCEPT ![s] = @ \o <<"Validated", "ResponseBuilt">>]
            /\ UNCHANGED params
    /\ UNCHANGED <<req, claims, verrs, outcome, builder, authCalls,
                   validationRuns, invoked, serRuns, task, rt>>

\* a dispatcher that calls the handler once more after it returned Err
HandlerCallable_RetryOnErr(s) ==
    \/ pc[s] = "Validated"
    \/ pc[s] = "HandlerReturned" /\ ~outcome[s].ok /\ Len(invoked[s]) < 2

\* a function body that does not await the validation task before the call
HandlerCallable_WhilePending(s) == pc[s] \in {"Validating", "Validated"}

\* the handler call follows the successful validation, once
HandlerCallable(s) == pc[s] = "Validated"

\* api_impl.as_ref().xxx(method, host, cookies, claims, path_params, body)
CallHandler(s) ==
    /\ HandlerCallable(s)
    /\ invoked' = [invoked EXCEPT ![s] =
           Append(@, [op |-> req[s].op, claims |-> claims[s], params |-> params[s]])]
    /\ pc' = [pc EXCEPT ![s] = "InHandler"]
    /\ Stage(s, "HandlerInvoked")
    /\ UNCHANGED <<req, params, claims, verrs, outcome, builder, resp,
                   authCalls, validationRuns, serRuns, task, rt>>

\* .await of the Handler Contract call: a declared variant or Err
HandlerReturns(s) ==
    /\ pc[s] = "InHandler"
    /\ \E res \in HandlerResults(req[s].op) :
           outcome' = [outcome EXCEPT ![s] = res]
    /\ pc' = [pc EXCEPT ![s] = "HandlerReturned"]
    /\ UNCHANGED <<req, params, claims, verrs, builder, resp, trace,
                   authCalls, validationRuns, invoked, serRuns, task, rt>>

\* an Err arm that answers like the declared error variant
HandlerErrResponse_As422 == Response(422, {JsonHeader}, EmptyBody, "handler-err")

\* Err(_) => response.status(500).body(Body::empty())
HandlerErrResponse == Response(500, {}, EmptyBody, "handler-err")

\* `match result`: Err gives 500; a body-less variant gives its status with
\* an empty body; a variant with a payload sets status and content-type on
\* the builder and hands the payload to a blocking worker
MapResponse(s) ==
    /\ pc[s] = "HandlerReturned"
    /\ IF ~outcome[s].ok
       THEN /\ resp' = [resp EXCEPT ![s] = HandlerErrResponse]
            /\ pc' = [pc EXCEPT ![s] = "ResponseBuilt"]
            /\ Stage(s, "ResponseBuilt")
            /\ UNCHANGED <<builder, task>>
       ELSE IF ~HasPayload(outcome[s].variant)
       THEN /\ builder' = [builder EXCEPT ![s] =
                   [status |-> StatusOf(outcome[s].variant), headers |-> {}]]
            /\ resp' = [resp EXCEPT ![s] =
                   Response(StatusOf(outcome[s].variant), {}, EmptyBody, "mapper")]
            /\ pc' = [pc EXCEPT ![s] = "ResponseBuilt"]
            /\ Stage(s, "ResponseBuilt")
            /\ UNCHANGED task
       ELSE /\ builder' = [builder EXCEPT ![s] =
                   [status |-> StatusOf(outcome[s].variant), headers |-> {JsonHeader}]]
            /\ task' = [task EXCEPT ![s] = "serialization"]
            /\ pc' = [pc EXCEPT ![s] = "Serializing"]
            /\ UNCHANGED <<resp, trace>>
    /\ UNCHANGED <<req, params, claims, verrs, outcome, authCalls,
                   validationRuns, invoked, serRuns, rt>>

\* a blocking worker runs the closure `move || serde_json::to_vec(&body)`
RunSerialization(s) ==
    /\ task[s] = "serialization"
    /\ serRuns' = [serRuns EXCEPT ![s] = @ + 1]
    /\ task' = [task EXCEPT ![s] = None]
    /\ UNCHANGED <<pc, req, params, claims, verrs, outcome, builder, resp,
                   trace, authCalls, validationRuns, invoked, rt>>

\* a function that drops the serialization error and answers with what the
\* builder holds
SerErrResponse_Dropped(b) == Response(b.status, b.headers, EmptyBody, "mapper")

\* `?` on the serialization result: Err(StatusCode::INTERNAL_SERVER_ERROR),
\* which axum answers with an empty 500; the builder b is dropped
SerErrResponse(b) == Response(500, {}, EmptyBody, "ser-err")

\* a mapper that stamps every response with the task that produced it
JoinSerialization_Stamped(s) ==
    /\ pc[s] = "Serializing"
    /\ task[s] = None
    /\ resp' = [resp EXCEPT ![s] =
           IF Encodes(outcome[s].payload)
           THEN Response(builder[s].status,
                         builder[s].headers \cup {<<"x-request-id", ToString(s)>>},
                         ToVec(outcome[s].payload), "mapper")
           ELSE SerErrResponse(builder[s])]
    /\ pc' = [pc EXCEPT ![s] = "ResponseBuilt"]
    /\ Stage(s, "ResponseBuilt")
    /\ UNCHANGED <<req, params, claims, verrs, outcome, builder, authCalls,
                   validationRuns, invoked, serRuns, task, rt>>

\* .await.unwrap()? of the serialization task: the bytes become the body of
\* the built response, a serialization error ends the function with
\* Err(StatusCode::INTERNAL_SERVER_ERROR)
JoinSerialization(s) ==
    /\ pc[s] = "Serializing"
    /\ task[s] = None
    /\ resp' = [resp EXCEPT ![s] =
           IF Encodes(outcome[s].payload)
           THEN Response(builder[s].status, builder[s].headers,
                         ToVec(outcome[s].payload), "mapper")
           ELSE SerErrResponse(builder[s])]
    /\ pc' = [pc EXCEPT ![s] = "ResponseBuilt"]
    /\ Stage(s, "ResponseBuilt")
    /\ UNCHANGED <<req, params, claims, verrs, outcome, builder, authCalls,
                   validationRuns, invoked, serRuns, task, rt>>

\* the function returns and the transport writes the response
Send(s) ==
    /\ pc[s] = "ResponseBuilt"
    /\ pc' = [pc EXCEPT ![s] = "Sent"]
    /\ Stage(s, "Sent")
    /\ UNCHANGED <<req, params, claims, verrs, outcome, builder, resp,
                   authCalls, validationRuns, invoked, serRuns, task, rt>>

\* the response is flushed and every request-scoped value is dropped; the
\* connection is ready for the next request
Drop(s) ==
    /\ pc[s] = "Sent"
    /\ pc' = [pc EXCEPT ![s] = "Idle"]
    /\ req' = [req EXCEPT ![s] = NoRequest]
    /\ params' = [params EXCEPT ![s] = NoParams]
    /\ claims' = [claims EXCEPT ![s] = None]
    /\ verrs' = [verrs EXCEPT ![s] = {}]
    /\ outcome' = [outcome EXCEPT ![s] = NoOutcome]
    /\ builder' = [builder EXCEPT ![s] = NoBuilder]
    /\ resp' = [resp EXCEPT ![s] = NoResponse]
    /\ trace' = [trace EXCEPT ![s] = <<>>]
    /\ authCalls' = [authCalls EXCEPT ![s] = 0]
    /\ validationRuns' = [validationRuns EXCEPT ![s] = 0]
    /\ invoked' = [invoked EXCEPT ![s] = <<>>]
    /\ serRuns' = [serRuns EXCEPT ![s] = 0]
    /\ task' = [task EXCEPT ![s] = None]
    /\ UNCHANGED rt

\* the function is suspended at one of its awaits: the provider call, the
\* JoinHandle of the validation task, the handler call, the JoinHandle of the
\* serialization task
Suspended(s) ==
    \/ pc[s] = "Extracted" /\ AuthRequired(req[s].op)
    \/ pc[s] \in {"Validating", "InHandler", "Serializing"}

\* the connection closes and the runtime drops the function's future at the
\* await it is suspended at: no later statement of the function runs.  A
\* closure given to spawn_blocking is not owned by the future: dropping the
\* JoinHandle detaches it and the blocking pool still runs it to its end.
Cancel(s) ==
    /\ Suspended(s)
    /\ pc' = [pc EXCEPT ![s] = "Cancelled"]
    /\ Stage(s, "Cancelled")
    /\ UNCHANGED <<req, params, claims, verrs, outcome, builder, resp,
                   authCalls, validationRuns, invoked, serRuns, task, rt>>

----------------------------------------------------------------------------
(* Specification: one connection serving requests one after the other *)

InitSlots(S) ==
    /\ pc = [s \in S |-> "Idle"]
    /\ req = [s \in S |-> NoRequest]
    /\ params = [s \in S |-> NoParams]
    /\ claims = [s \in S |-> None]
    /\ verrs = [s \in S |-> {}]
    /\ outcome = [s \in S |-> NoOutcome]
    /\ builder = [s \in S |-> NoBuilder]
    /\ resp = [s \in S |-> NoResponse]
    /\ trace = [s \in S |-> <<>>]
    /\ authCalls = [s \in S |-> 0]
    /\ validationRuns = [s \in S |-> 0]
    /\ invoked = [s \in S |-> <<>>]
    /\ serRuns = [s \in S |-> 0]
    /\ task = [s \in S |-> None]

Init == InitSlots({1}) /\ rt = NoRoundTrip

ReceiveAny ==
    \E s \in Slots :
        /\ pc[s] = "Idle"
        /\ \E op \in Ops : \E r \in Requests(op) : Receive(s, r)
ExtractAny == \E s \in Slots : Extract(s)
AuthenticateAny == \E s \in Slots : Authenticate(s)
SpawnValidationAny == \E s \in Slots : SpawnValidation(s)
RunValidationAny == \E s \in Slots : RunValidation(s)
JoinValidationAny == \E s \in Slots : JoinValidation(s)
CallHandlerAny == \E s \in Slots : CallHandler(s)
HandlerReturnsAny == \E s \in Slots : HandlerReturns(s)
MapResponseAny == \E s \in Slots : MapResponse(s)
RunSerializationAny == \E s \in Slots : RunSerialization(s)
JoinSerializationAny == \E s \in Slots : JoinSerialization(s)
SendAny == \E s \in Slots : Send(s)
DropAny == \E s \in Slots : Drop(s)

Next ==
    \/ ReceiveAny
    \/ ExtractAny
    \/ AuthenticateAny
    \/ SpawnValidationAny
    \/ RunValidationAny
    \/ JoinValidationAny
    \/ CallHandlerAny
    \/ HandlerReturnsAny
    \/ MapResponseAny
    \/ RunSerializationAny
    \/ JoinSerializationAny
    \/ SendAny
    \/ DropAny

Spec == Init /\ [][Next]_vars

----------------------------------------------------------------------------
(* Specification: two requests in flight at the same time, each in its own
   task of the runtime, on three of the routes *)

ConcOps == { "get_articles_feed", "create_article", "get_article" }

ConcRequests(op) ==
    { r \in Requests(op) :
        /\ r.hdr \in {"missing", "invalid", "bearer-a"}
        /\ r.path \in {NoPath, "slug-a"}
        /\ r.qnum["limit"] = Absent
        /\ r.qnum["offset"] \in {Absent, <<"int", -1>>}
        /\ r.body \in {NoBody, "doc-a", "syntax"} }

InitConc == InitSlots({1, 2}) /\ rt = NoRoundTrip

ReceiveConc ==
    \E s \in Slots :
        /\ pc[s] = "Idle"
        /\ \E op \in ConcOps : \E r \in ConcRequests(op) : Receive(s, r)

NextConc ==
    \/ ReceiveConc
    \/ ExtractAny
    \/ AuthenticateAny
    \/ SpawnValidationAny
    \/ RunValidationAny
    \/ JoinValidationAny
    \/ CallHandlerAny
    \/ HandlerReturnsAny
    \/ MapResponseAny
    \/ RunSerializationAny
    \/ JoinSerializationAny
    \/ SendAny
    \/ DropAny

SpecConc == InitConc /\ [][NextConc]_vars

----------------------------------------------------------------------------
(* Specification: one connection whose client may go away while a request
   is in flight *)

CancelAny == \E s \in Slots : Cancel(s)

NextCancel == Next \/ CancelAny

SpecCancel == Init /\ [][NextCancel]_vars

----------------------------------------------------------------------------
(* Specification: a NewArticle makes the trip through create_article and
   back, one codec at a time *)

pipeline ==
    <<pc, req, params, claims, verrs, outcome, builder, resp, trace,
      authCalls, validationRuns, invoked, serRuns, task>>

RtStep(from, to, v) ==
    /\ rt.stage = from
    /\ rt' = [stage |-> to, sent |-> rt.sent, val |-> v]
    /\ UNCHANGED pipeline

\* the client writes the request body
RtEncodeRequest == RtStep("client", "request", ToJsonNewArticle(rt.sent))

\* Json(body): Json<models::CreateArticleRequest>
RtDecodeRequest == RtStep("request", "decoded", FromJsonNewArticle(rt.val))

\* the handler returns Status201_SingleArticle with the echoed Article
RtHandler ==
    /\ rt.stage = "decoded" /\ rt.val.ok
    /\ RtStep("decoded", "echoed", EchoArticle(rt.val.val))

\* serde_json::to_vec(&body) of the returned payload
RtEncodeResponse == RtStep("echoed", "response", ToJsonArticle(rt.val))

\* the client reads the response body
RtDecodeResponse == RtStep("response", "read", FromJsonArticle(rt.val))

InitRoundTrip ==
    /\ InitSlots({1})
    /\ rt \in { [stage |-> "client", sent |-> na, val |-> na] : na \in NewArticles }

NextRoundTrip ==
    \/ RtEncodeRequest
    \/ RtDecodeRequest
    \/ RtHandler
    \/ RtEncodeResponse
    \/ RtDecodeResponse

SpecRoundTrip == InitRoundTrip /\ [][NextRoundTrip]_vars

----------------------------------------------------------------------------
(* Specification: the string conversions applied to values and to texts.
   A value of a model is printed by Display and the text read back by
   FromStr; a text is read by FromStr *)

\* the values a String field takes: empty, a word, the model's first key,
\* and a text with a comma in it
StrVals(m) == {<<>>, <<"a">>, <<Schema(m)[1].key>>, <<"a", Comma, "a">>}

\* the values of one field; Display skips nested models and the items of
\* the containers it skips, one stand-in value is drawn for them
FieldValues(m, f) ==
    LET base == CASE f.kind = "String" -> StrVals(m)
                  [] f.kind = "bool" -> BOOLEAN
                  [] f.kind = "i32" -> Counts
                  [] f.kind = "DateTime" -> {Instant}
                  [] f.kind = "container" /\ f.shown ->
                       {<<>>, << <<"a">> >>, << <<"a">>, <<"b">> >>}
                  [] OTHER -> {<<f.kind>>}
    IN  IF f.required THEN base ELSE {NoneOf} \cup { SomeOf(x) : x \in base }

RECURSIVE ValuesUpTo(_, _)
ValuesUpTo(m, n) ==
    IF n = 0 THEN { [k \in {} |-> None] }
    ELSE LET f == Schema(m)[n]
         IN  { [k \in DOMAIN v \cup {f.key} |-> IF k = f.key THEN x ELSE v[k]] :
                 v \in ValuesUpTo(m, n - 1), x \in FieldValues(m, f) }

Values(m) == ValuesUpTo(m, Len(Schema(m)))

\* the pieces the input texts are made of: a value, a word that is no key,
\* the first keys of the model and the keys of its containers
Tokens(m) ==
    {<<"a">>, <<"zz">>}
      \cup { <<Schema(m)[i].key>> : i \in { j \in 1..Len(Schema(m)) : j <= MaxKeys } }
      \cup { <<Schema(m)[i].key>> :
               i \in { j \in 1..Len(Schema(m)) : Schema(m)[j].kind = "container" } }

Inputs(m) ==
    {<<>>} \cup { Join(ts) : ts \in UNION { [1..n -> Tokens(m)] : n \in 1..MaxTokens } }

StrStep(from, to, v) ==
    /\ rt.stage = from
    /\ rt' = [stage |-> to, sent |-> rt.sent, val |-> v]
    /\ UNCHANGED pipeline

\* v.to_string()
StrDisplay == StrStep("value", "printed", Display(rt.sent.model, rt.sent.value))

\* s.parse::<Model>() of the printed text
StrReparse ==
    StrStep("printed", "reparsed",
            [text |-> rt.val, result |-> FromStr(rt.sent.model, rt.val)])

\* s.parse::<Model>() of a text
StrParse ==
    StrStep("text", "parsed",
            [text |-> rt.sent.text, result |-> FromStr(rt.sent.model, rt.sent.text)])

InitFromStr ==
    /\ InitSlots({1})
    /\ rt \in UNION { { [stage |-> "value", sent |-> [model |-> m, value |-> v],
                          val |-> "-"] : v \in Values(m) }
                      \cup { [stage |-> "text", sent |-> [model |-> m, text |-> s],
                               val |-> "-"] : s \in Inputs(m) } : m \in Models }

NextFromStr ==
    \/ StrDisplay
    \/ StrReparse
    \/ StrParse

SpecFromStr == InitFromStr /\ [][NextFromStr]_vars

----------------------------------------------------------------------------
(* Specification: as Spec, with every step of a request taken in the end:
   the runtime keeps polling the function, and the provider call, the
   blocking tasks and the handler call each complete *)

Fairness ==
    /\ WF_vars(ExtractAny)
    /\ WF_vars(AuthenticateAny)
    /\ WF_vars(SpawnValidationAny)
    /\ WF_vars(RunValidationAny)
    /\ WF_vars(JoinValidationAny)
    /\ WF_vars(CallHandlerAny)
    /\ WF_vars(HandlerReturnsAny)
    /\ WF_vars(MapResponseAny)
    /\ WF_vars(RunSerializationAny)
    /\ WF_vars(JoinSerializationAny)
    /\ WF_vars(SendAny)

SpecLive == Spec /\ Fairness

TypeOK ==
    \A s \in Slots :
        /\ pc[s] \in {"Idle", "Received", "Extracted", "AuthChecked", "Validating",
                      "Validated", "InHandler", "HandlerReturned", "Serializing",
                      "ResponseBuilt", "Sent", "Cancelled"}
        /\ resp[s].status \in {0, 200, 201, 400, 401, 413, 415, 422, 500}
        /\ task[s] \in {None, "validation", "serialization"}

----------------------------------------------------------------------------
(* Properties *)

\* the function of the request has returned its response
Responded(s) == pc[s] \in {"ResponseBuilt", "Sent"}

InTrace(s, name) == \E i \in 1..Len(trace[s]) : trace[s][i] = name

\* the provider was asked and returned None
ResolvedNone(s) == authCalls[s] >= 1 /\ claims[s] = None

\* the twelve routes that require authentication
C1_Ops ==
    { "create_article", "delete_article", "get_articles_feed",
      "update_article", "create_article_comment", "delete_article_comment",
      "create_article_favorite", "delete_article_favorite",
      "follow_user_by_username", "unfollow_user_by_username",
      "get_current_user", "update_current_user" }

\* C1: on each of the twelve auth-required operations, once
\* extract_claims_from_header has returned None the response is exactly 401
\* and the Handler Contract operation has not been invoked; a handler of
\* these operations is only ever invoked with claims present.
C1_NoClaimsIs401 ==
    \A s \in Slots :
        req[s].op \in C1_Ops =>
            /\ ResolvedNone(s) =>
                   /\ Responded(s)
                   /\ resp[s].status = 401
                   /\ invoked[s] = <<>>
            /\ invoked[s] # <<>> => authCalls[s] = 1 /\ claims[s] # None

C1_Witness ==
    \E s \in Slots :
        /\ pc[s] = "Sent"
        /\ req[s].op = "get_current_user"
        /\ ResolvedNone(s)
        /\ resp[s].status = 401
        /\ invoked[s] = <<>>

\* C2: on an auth-required route the auth check precedes the extraction of
\* path, query and body, so a request whose headers carry no valid claims is
\* always answered 401 with an empty body, also when its path, query or JSON
\* body cannot be extracted or decoded.
C2_AuthBeforeExtraction ==
    \A s \in Slots :
        (/\ req[s].op \in C1_Ops
         /\ ExtractClaimsFromHeader(req[s].hdr) = None
         /\ Responded(s)) =>
            /\ resp[s].status = 401
            /\ resp[s].body = EmptyBody
            /\ InTrace(s, "AuthChecked")

\* C3: on an auth-required route a request without claims never has its
\* validation started; when its parameters were extracted, also with a range
\* violation among them, it is answered 401 with an empty body, never 400.
C3_AbsentClaimsBeforeValidation ==
    \A s \in Slots :
        (req[s].op \in C1_Ops /\ ExtractClaimsFromHeader(req[s].hdr) = None) =>
            /\ validationRuns[s] = 0
            /\ verrs[s] = {}
            /\ ~InTrace(s, "Validated")
            /\ (Responded(s) /\ InTrace(s, "ParamsExtracted")) =>
                   /\ resp[s].status = 401
                   /\ resp[s].body = EmptyBody
                   /\ resp[s].headers = {}

C3_Witness ==
    \E s \in Slots :
        /\ pc[s] = "Sent"
        /\ req[s].op = "get_articles_feed"
        /\ ExtractClaimsFromHeader(req[s].hdr) = None
        /\ params[s].qnum["offset"] = SomeNum(-1)
        /\ params[s].qnum["limit"] = SomeNum(0)
        /\ resp[s].status = 401
        /\ validationRuns[s] = 0

\* C4: per request at most one Handler Contract operation is invoked, the
\* one of the route, at most once, and no stage (auth resolution,
\* validation, serialization) runs twice; a failed validation leaves the
\* handler uncalled and a handler failure leaves it called exactly once.
C4_AtMostOnce ==
    \A s \in Slots :
        /\ Len(invoked[s]) <= 1
        /\ \A i \in 1..Len(invoked[s]) : invoked[s][i].op = req[s].op
        /\ authCalls[s] <= 1
        /\ validationRuns[s] <= 1
        /\ serRuns[s] <= 1
        /\ resp[s].via = "validation" => invoked[s] = <<>>
        /\ resp[s].via = "handler-err" => Len(invoked[s]) = 1

C4_Witness ==
    \E s \in Slots :
        /\ pc[s] = "Sent"
        /\ outcome[s].variant = "Err"
        /\ Len(invoked[s]) = 1
        /\ validationRuns[s] = 1

\* the lines of a response body, as a set
BodyLines(s) == { resp[s].body[i] : i \in 1..Len(resp[s].body) }

\* C5: once the validation step has returned an error, the response is 400,
\* its body is the non-empty serialized error collection, and the handler
\* is not invoked.
C5_ValidationErrorIs400 ==
    \A s \in Slots :
        (validationRuns[s] >= 1 /\ verrs[s] # {}) =>
            /\ invoked[s] = <<>>
            /\ pc[s] \in {"Validating", "ResponseBuilt", "Sent"}
            /\ Responded(s) =>
                   /\ resp[s].status = 400
                   /\ resp[s].body # EmptyBody
                   /\ Len(resp[s].body) = Cardinality(verrs[s])
                   /\ BodyLines(s) = { ErrLine(f) : f \in verrs[s] }

C5_Witness ==
    \E s \in Slots :
        /\ pc[s] = "Sent"
        /\ req[s].op = "get_articles"
        /\ verrs[s] = {"limit"}
        /\ resp[s].status = 400
        /\ resp[s].body = <<"limit: Validation error: range">>

\* a numeric query field was supplied with an i32 below its declared bound
SuppliedBelow(s, f) ==
    /\ req[s].qnum[f][1] = "int"
    /\ req[s].qnum[f][2] < (IF f = "offset" THEN 0 ELSE 1)

\* every supplied numeric query value is an i32
OthersValid(s) ==
    \A f \in {"offset", "limit"} : req[s].qnum[f][1] \in {"absent", "int"}

\* C6 as stated: on GET /api/articles and GET /api/articles/feed a supplied
\* offset below 0 or limit below 1 yields 400 with an error entry naming the
\* field, and the handler is never invoked, whatever other valid query
\* parameters are present.
C6_BelowBoundIs400 ==
    \A s \in Slots : \A f \in {"offset", "limit"} :
        (/\ req[s].op \in {"get_articles", "get_articles_feed"}
         /\ SuppliedBelow(s, f)
         /\ OthersValid(s)) =>
            /\ invoked[s] = <<>>
            /\ Responded(s) =>
                   /\ resp[s].status = 400
                   /\ ErrLine(f) \in BodyLines(s)

\* C6 (amended): the same holds on GET /api/articles, and on
\* GET /api/articles/feed for a request whose claims resolve; a feed request
\* without claims is answered 401 instead; the handler is invoked in
\* neither case.
C6_BelowBoundIs400WhenAuthenticated ==
    \A s \in Slots : \A f \in {"offset", "limit"} :
        (/\ req[s].op \in {"get_articles", "get_articles_feed"}
         /\ SuppliedBelow(s, f)
         /\ OthersValid(s)) =>
            /\ invoked[s] = <<>>
            /\ Responded(s) =>
                   IF req[s].op = "get_articles_feed"
                      /\ ExtractClaimsFromHeader(req[s].hdr) = None
                   THEN resp[s].status = 401 /\ resp[s].body = EmptyBody
                   ELSE /\ resp[s].status = 400
                        /\ ErrLine(f) \in BodyLines(s)

C6_Witness ==
    \E s \in Slots :
        /\ pc[s] = "Sent"
        /\ req[s].op = "get_articles_feed"
        /\ claims[s] = "claims-a"
        /\ req[s].qnum["offset"] = <<"int", -1>>
        /\ req[s].qnum["limit"] = <<"int", 1>>
        /\ resp[s].status = 400
        /\ resp[s].body = <<"offset: Validation error: range">>

\* the declared constraints the request's parameters violate
Violated(s) ==
    { f \in {"offset", "limit"} :
        req[s].op \in {"get_articles", "get_articles_feed"} /\ SuppliedBelow(s, f) }

\* C7: validation reports every violated declared constraint of the
\* request's parameters, not only the first: the error collection holds
\* exactly one entry per violated constraint, and so does the 400 body.
C7_AllViolationsReported ==
    \A s \in Slots :
        validationRuns[s] >= 1 =>
            /\ verrs[s] = Violated(s)
            /\ resp[s].via = "validation" =>
                   /\ Len(resp[s].body) = Cardinality(Violated(s))
                   /\ BodyLines(s) = { ErrLine(f) : f \in Violated(s) }

C7_Witness ==
    \E s \in Slots :
        /\ pc[s] = "Sent"
        /\ req[s].qnum["offset"] = <<"int", -1>>
        /\ req[s].qnum["limit"] = <<"int", 0>>
        /\ verrs[s] = {"offset", "limit"}
        /\ Len(resp[s].body) = 2

\* C8: when the Handler Contract call returns Err the response is 500 with
\* an empty body and no content-type header, and the handler was called
\* once only.
C8_HandlerErrIs500 ==
    \A s \in Slots :
        (outcome[s].variant = "Err" /\ Responded(s)) =>
            /\ resp[s].status = 500
            /\ resp[s].body = EmptyBody
            /\ \A h \in resp[s].headers : h[1] # "content-type"
            /\ Len(invoked[s]) = 1
            /\ serRuns[s] = 0

C8_Witness ==
    \E s \in Slots :
        /\ pc[s] = "Sent"
        /\ req[s].op = "get_tags"
        /\ outcome[s].variant = "Err"
        /\ resp[s].status = 500

\* the status code spelled in a variant's name
NamedCode(v) ==
    CASE v \in {"Status201_SingleArticle", "Status201_User"} -> 201
      [] v \in {"Status200_SingleArticle", "Status200_MultipleArticles",
                "Status200_SingleComment", "Status200_MultipleComments",
                "Status200_Profile", "Status200_Tags", "Status200_User",
                "Status200_NoContent"} -> 200
      [] v = "Status401_Unauthorized" -> 401
      [] v = "Status422_UnexpectedError" -> 422

\* the variants that carry no payload
C10_Payloadless == { "Status401_Unauthorized", "Status200_NoContent" }

\* C9: the mapper gives every declared variant the status code of its name,
\* on the builder and in the response it builds, and the body of a response
\* built from a payload-carrying variant is the JSON encoding of exactly the
\* payload the handler returned.
C9_MapperIsFixed ==
    \A s \in Slots :
        /\ (outcome[s].ok /\ pc[s] \in {"Serializing", "ResponseBuilt", "Sent"}) =>
               builder[s].status = NamedCode(outcome[s].variant)
        /\ (Responded(s) /\ resp[s].via = "mapper") =>
               /\ outcome[s].ok
               /\ resp[s].status = NamedCode(outcome[s].variant)
               /\ outcome[s].variant \notin C10_Payloadless =>
                      resp[s].body = <<"{", ToString(outcome[s].payload), "}">>

C9_Witness ==
    \E s \in Slots :
        /\ pc[s] = "Sent"
        /\ req[s].op = "create_article"
        /\ outcome[s].variant = "Status201_SingleArticle"
        /\ outcome[s].payload = 2
        /\ resp[s].status = 201
        /\ resp[s].body = <<"{", "2", "}">>

\* C10: a response built from a handler Outcome has the header
\* content-type: application/json exactly when the variant carries a
\* payload; the header is on the builder when the payload is handed to the
\* serializer; payload-less variants give an empty body and no header.
C10_ContentTypeIffPayload ==
    \A s \in Slots :
        /\ (Responded(s) /\ resp[s].via = "mapper") =>
               /\ (JsonHeader \in resp[s].headers)
                      <=> (outcome[s].variant \notin C10_Payloadless)
               /\ outcome[s].variant \in C10_Payloadless =>
                      resp[s].body = EmptyBody /\ resp[s].headers = {}
               /\ outcome[s].variant \notin C10_Payloadless =>
                      resp[s].body # EmptyBody
        /\ serRuns[s] >= 1 =>
               /\ JsonHeader \in builder[s].headers
               /\ outcome[s].variant \notin C10_Payloadless

C10_Witness ==
    \E s \in Slots :
        /\ pc[s] = "Sent"
        /\ req[s].op = "delete_article"
        /\ outcome[s].variant = "Status422_UnexpectedError"
        /\ resp[s].via = "mapper"
        /\ JsonHeader \in resp[s].headers

----------------------------------------------------------------------------
(* Serialization failure *)

\* serde_json::to_vec ran for the payload of the request and returned Err
SerializationFailed(s) == serRuns[s] >= 1 /\ outcome[s].payload = Unencodable

\* C11: when the serialization of a variant's payload fails, the request
\* ends with status 500, an empty body and no header; and no response with
\* the declared status of a payload-carrying variant is produced with
\* anything but the complete encoding of the payload as its body.
C11_SerializationFailureIs500 ==
    \A s \in Slots :
        /\ (Responded(s) /\ SerializationFailed(s)) =>
               /\ resp[s].status = 500
               /\ resp[s].body = EmptyBody
               /\ resp[s].headers = {}
        /\ (SerializationFailed(s) /\ ~Responded(s)) => pc[s] = "Serializing"
        /\ (Responded(s) /\ outcome[s].ok
              /\ outcome[s].variant \notin C10_Payloadless
              /\ resp[s].status = NamedCode(outcome[s].variant)) =>
               resp[s].body = <<"{", ToString(outcome[s].payload), "}">>

C11_Witness ==
    \E s \in Slots :
        /\ pc[s] = "Sent"
        /\ req[s].op = "create_article"
        /\ outcome[s].variant = "Status201_SingleArticle"
        /\ SerializationFailed(s)
        /\ builder[s].status = 201
        /\ resp[s].status = 500

----------------------------------------------------------------------------
(* Validation before the handler *)

\* stage a is recorded before stage b in the request's trace
Before(s, a, b) ==
    \E i, j \in 1..Len(trace[s]) : i < j /\ trace[s][i] = a /\ trace[s][j] = b

\* C12: the handler is invoked only after the result of the request's own
\* validation task has been observed, and only when that result is a
\* success: while the task is pending or its result is not yet observed
\* the handler has not been called.
C12_HandlerAfterValidation ==
    \A s \in Slots :
        /\ invoked[s] # <<>> =>
               /\ validationRuns[s] = 1
               /\ task[s] # "validation"
               /\ verrs[s] = {}
               /\ Before(s, "Validated", "HandlerInvoked")
        /\ (task[s] = "validation" \/ pc[s] = "Validating") => invoked[s] = <<>>

C12_Witness ==
    \E s \in Slots :
        /\ pc[s] = "InHandler"
        /\ req[s].op = "get_articles"
        /\ params[s].qnum["limit"] = SomeNum(1)
        /\ validationRuns[s] = 1
        /\ Len(invoked[s]) = 1

----------------------------------------------------------------------------
(* Concurrent requests *)

\* everything the dispatcher holds for the request in slot s
SlotState(s) ==
    <<pc[s], req[s], params[s], claims[s], verrs[s], outcome[s], builder[s],
      resp[s], trace[s], authCalls[s], validationRuns[s], invoked[s],
      serRuns[s], task[s]>>

\* the status the request's own input and its own handler result call for
ExpectedStatus(s) ==
    LET r == req[s] IN
    IF Rejection(r) # None THEN RejectionStatus(Rejection(r))
    ELSE IF r.op \in C1_Ops /\ r.hdr \notin {"bearer-a", "bearer-b"} THEN 401
    ELSE IF \E f \in {"offset", "limit"} : SuppliedBelow(s, f) THEN 400
    ELSE IF ~outcome[s].ok THEN 500
    ELSE IF outcome[s].payload = Unencodable THEN 500
    ELSE NamedCode(outcome[s].variant)

\* C13: requests in flight at the same time are independent: a step of one
\* request changes nothing that belongs to another, the handler is called
\* with the request's own claims and parameters, and the status of the
\* response is determined by the request's own input and the handler's
\* result for it.
C13_RequestsIndependent ==
    /\ [](\A s \in Slots :
            /\ invoked[s] # <<>> =>
                   /\ invoked[s][1].op = req[s].op
                   /\ invoked[s][1].params = Extracted(req[s])
                   /\ invoked[s][1].claims =
                          (IF req[s].op \in C1_Ops
                           THEN ExtractClaimsFromHeader(req[s].hdr) ELSE None)
            /\ Responded(s) => resp[s].status = ExpectedStatus(s))
    /\ [][\E s \in Slots :
            \A t \in Slots \ {s} : SlotState(t)' = SlotState(t)]_vars

\* both requests are in flight, one is answered 400 by its validation while
\* the other, valid one is inside its handler
C13_Witness ==
    /\ req[1].op = "get_articles_feed" /\ resp[1].via = "validation"
    /\ pc[1] = "ResponseBuilt"
    /\ req[2].op = "get_articles_feed" /\ pc[2] = "InHandler"
    /\ req[2].hdr = req[1].hdr

----------------------------------------------------------------------------
(* Cancellation *)

\* C14: once the connection of a request has closed at a suspension point
\* before ResponseBuilt, nothing more is done for the request: no offloaded
\* validation or serialization task runs on a worker, the handler is not
\* invoked, and no response is built or sent.
C14_CancelAbandonsWork ==
    [][\A s \in Slots :
          pc[s] = "Cancelled" => SlotState(s)' = SlotState(s)]_vars

----------------------------------------------------------------------------
(* Request bodies that do not decode *)

\* the six operations that take a JSON body
C15_BodyOps ==
    { "create_article", "update_article", "create_article_comment",
      "create_user", "login", "update_current_user" }

\* the request was answered by an extractor, before the function body: no
\* claims lookup, no validation, no handler call, no typed value
RejectedUpFront(s) ==
    /\ Responded(s)
    /\ resp[s].via = "rejection"
    /\ SubSeq(trace[s], 1, 2) = <<"Received", "ResponseBuilt">>
    /\ params[s] = NoParams
    /\ authCalls[s] = 0
    /\ validationRuns[s] = 0 /\ task[s] = None
    /\ invoked[s] = <<>>

----------------------------------------------------------------------------
(* Responses to requests without claims *)

\* C17: any two requests to the same route that requires authentication,
\* for which the provider returned None, are answered with the same
\* response: status 401, an empty body and no header, whatever their
\* headers, path, query and body are.
C17_NoClaimsResponsesIdentical ==
    \A s, t \in Slots :
        (/\ req[s].op \in C1_Ops /\ req[t].op = req[s].op
         /\ ResolvedNone(s) /\ ResolvedNone(t)
         /\ Responded(s) /\ Responded(t)) =>
            /\ resp[s] = resp[t]
            /\ resp[s].status = 401
            /\ resp[s].body = EmptyBody
            /\ resp[s].headers = {}

C17_Witness ==
    /\ pc[1] = "Sent" /\ pc[2] = "Sent"
    /\ req[1].op = "get_articles_feed" /\ req[2].op = "get_articles_feed"
    /\ req[1].hdr = "missing" /\ req[2].hdr = "invalid"
    /\ req[1].qnum["offset"] = Absent /\ req[2].qnum["offset"] = <<"int", -1>>
    /\ ResolvedNone(1) /\ ResolvedNone(2)
    /\ resp[1] = resp[2]

----------------------------------------------------------------------------
(* Determinism of GET /api/articles/{slug} *)

\* what a client reads of the response: status line, headers, body bytes
Bytes(s) == <<resp[s].status, resp[s].headers, resp[s].body>>

----------------------------------------------------------------------------
(* Round trip of a NewArticle *)

\* C19: a NewArticle with only title, description and body (no tagList),
\* submitted to create_article and echoed by the stub handler as the created
\* Article, is decoded by the server with tag_list None and decodes from the
\* response with the same title, description and body and with tagList the
\* empty list.
C19_RoundTrip ==
    rt.stage \in {"decoded", "read"} /\ rt.sent.tag_list = NoneTags =>
        /\ rt.val.ok
        /\ rt.val.val.title = rt.sent.title
        /\ rt.val.val.description = rt.sent.description
        /\ rt.val.val.body = rt.sent.body
        /\ rt.stage = "decoded" => rt.val.val.tag_list = NoneTags
        /\ rt.stage = "read" => rt.val.val.tag_list = <<>>

C19_Witness ==
    /\ rt.stage = "read"
    /\ rt.sent = [title |-> "x", description |-> "y", body |-> "x",
                  tag_list |-> NoneTags]
    /\ rt.val.ok
    /\ rt.val.val.title = "x" /\ rt.val.val.description = "y"
    /\ rt.val.val.tag_list = <<>>

----------------------------------------------------------------------------
(* Registration *)

\* C20: POST /api/users with a well-formed body, for which the handler
\* returns Status201_User(payload), is answered with status 201, the header
\* content-type: application/json and a body that deserializes into the
\* payload; the claims provider is not asked, so the answer is the same with
\* and without an Authorization header.
C20_CreateUser201 ==
    \A s \in Slots :
        (/\ req[s].op = "create_user"
         /\ req[s].body \in {"doc-a", "doc-b"}
         /\ outcome[s].variant = "Status201_User"
         /\ outcome[s].payload # Unencodable
         /\ pc[s] \notin {"InHandler", "HandlerReturned", "Serializing"}) =>
            /\ Responded(s)
            /\ resp[s].status = 201
            /\ resp[s].headers = {<<"content-type", "application/json">>}
            /\ FromSlice(resp[s].body) = [ok |-> TRUE, val |-> outcome[s].payload]
            /\ authCalls[s] = 0
            /\ Len(invoked[s]) = 1 /\ invoked[s][1].params.body = req[s].body

C20_Witness ==
    \E s \in Slots :
        /\ pc[s] = "Sent"
        /\ req[s].op = "create_user"
        /\ req[s].hdr = "missing"
        /\ req[s].body = "doc-a"
        /\ outcome[s].variant = "Status201_User"
        /\ outcome[s].payload = 2
        /\ resp[s].status = 201
        /\ FromSlice(resp[s].body).val = 2

----------------------------------------------------------------------------
(* Optional query fields and their inclusive bounds *)

\* every supplied numeric query value is at or above its declared minimum
WithinBounds(s) ==
    /\ req[s].qnum["offset"][1] = "int" => req[s].qnum["offset"][2] >= 0
    /\ req[s].qnum["limit"][1] = "int" => req[s].qnum["limit"][2] >= 1

\* C21: on GET /api/articles and GET /api/articles/feed every query field
\* is optional on its own: any subset may be absent, an absent field is
\* extracted as None and never fails its range; the bounds are inclusive:
\* the validation succeeds exactly when every supplied offset is >= 0 and
\* every supplied limit is >= 1, over the whole i32 range, and the request
\* reaches the handler exactly then.
C21_OptionalFieldsInclusiveBounds ==
    \A s \in Slots :
        req[s].op \in {"get_articles", "get_articles_feed"} =>
            /\ (OthersValid(s) /\ pc[s] \notin {"Idle", "Received"}) =>
                   /\ resp[s].via # "rejection"
                   /\ params[s].qstr = req[s].qstr
                   /\ \A f \in {"offset", "limit"} :
                          params[s].qnum[f] =
                              IF req[s].qnum[f][1] = "absent"
                              THEN <<"None", 0>>
                              ELSE <<"Some", req[s].qnum[f][2]>>
            /\ validationRuns[s] >= 1 =>
                   /\ (verrs[s] = {}) <=> WithinBounds(s)
                   /\ \A f \in {"offset", "limit"} :
                          req[s].qnum[f][1] = "absent" => f \notin verrs[s]
                   /\ ~WithinBounds(s) => invoked[s] = <<>>
                   /\ (WithinBounds(s) /\ Responded(s)) => Len(invoked[s]) = 1

C21_Witness ==
    \E s \in Slots :
        /\ pc[s] = "InHandler"
        /\ req[s].op = "get_articles"
        /\ req[s].qnum["offset"] = <<"int", 0>>
        /\ req[s].qnum["limit"] = <<"int", 1>>
        /\ req[s].qstr["tag"] = "x" /\ req[s].qstr["author"] = None
        /\ verrs[s] = {}
        /\ Len(invoked[s]) = 1

----------------------------------------------------------------------------
(* Routes without authentication *)

\* the seven routes that do not require authentication
C22_Ops ==
    { "get_articles", "get_article", "get_article_comments",
      "get_profile_by_username", "get_tags", "create_user", "login" }

\* C22: on the seven routes without authentication the claims provider is
\* never asked and the dispatcher answers no 401 of its own: whatever the
\* Authorization header is, the request goes from extraction to validation
\* to the handler, which gets no claims; a 401 response comes only from the
\* handler returning Status401_Unauthorized, which get_article, get_tags and
\* create_user never do.
C22_NoAuthRoutes ==
    \A s \in Slots :
        req[s].op \in C22_Ops =>
            /\ authCalls[s] = 0
            /\ claims[s] = None
            /\ ~InTrace(s, "AuthChecked")
            /\ resp[s].via # "auth"
            /\ invoked[s] # <<>> =>
                   /\ invoked[s][1].claims = None
                   /\ SubSeq(trace[s], 1, 4) =
                          <<"Received", "ParamsExtracted", "Validated", "HandlerInvoked">>
            /\ (Responded(s) /\ resp[s].status = 401) =>
                   /\ Len(invoked[s]) = 1
                   /\ outcome[s].ok
                   /\ outcome[s].variant = "Status401_Unauthorized"
                   /\ req[s].op \notin {"get_article", "get_tags", "create_user"}

C22_Witness ==
    \E s \in Slots :
        /\ pc[s] = "Sent"
        /\ req[s].op = "login"
        /\ req[s].hdr = "invalid"
        /\ Len(invoked[s]) = 1
        /\ outcome[s].variant = "Status401_Unauthorized"
        /\ resp[s].status = 401
        /\ authCalls[s] = 0

----------------------------------------------------------------------------
(* Operations without declared constraints *)

\* the two operations whose parameters declare constraints
C23_Constrained == { "get_articles", "get_articles_feed" }

\* C23: a 400 of the validation step occurs on GET /api/articles and
\* GET /api/articles/feed only: on the other 17 operations the validation
\* of every extracted input succeeds and the request goes on to the handler.
C23_ValidationFailsOnlyOnQueries ==
    \A s \in Slots :
        /\ resp[s].via = "validation" => req[s].op \in C23_Constrained
        /\ (req[s].op # None /\ req[s].op \notin C23_Constrained) =>
               /\ verrs[s] = {}
               /\ (validationRuns[s] >= 1 /\ pc[s] # "Validating") =>
                      /\ InTrace(s, "Validated")
                      /\ pc[s] \in {"Validated", "InHandler", "HandlerReturned",
                                    "Serializing", "ResponseBuilt", "Sent"}
                      /\ pc[s] # "Validated" => Len(invoked[s]) = 1

C23_Witness ==
    \E s \in Slots :
        /\ pc[s] = "InHandler"
        /\ req[s].op = "update_article"
        /\ req[s].path = "slug-b"
        /\ req[s].body = "doc-b"
        /\ validationRuns[s] = 1
        /\ verrs[s] = {}

----------------------------------------------------------------------------
(* Pass-through of claims and parameters *)

\* the typed value of a raw numeric query token that parses
Typed(tok) == IF tok[1] = "absent" THEN <<"None", 0>> ELSE <<"Some", tok[2]>>

\* C24: whenever the handler is invoked it gets the claims the provider
\* returned for this request and the path, query and body values as they
\* were extracted from the request: neither the authentication block nor
\* the validation alters, defaults or drops a field.
C24_PassThrough ==
    \A s \in Slots :
        invoked[s] # <<>> =>
            LET call == invoked[s][1] IN
            /\ call.op = req[s].op
            /\ req[s].op \in C1_Ops =>
                   /\ call.claims = claims[s]
                   /\ call.claims =
                          (IF req[s].hdr = "bearer-a" THEN "claims-a" ELSE "claims-b")
            /\ call.params = params[s]
            /\ call.params.path = req[s].path
            /\ call.params.body = req[s].body
            /\ call.params.qstr = req[s].qstr
            /\ \A f \in {"offset", "limit"} :
                   call.params.qnum[f] = Typed(req[s].qnum[f])

C24_Witness ==
    \E s \in Slots :
        /\ pc[s] = "InHandler"
        /\ req[s].op = "get_articles_feed"
        /\ req[s].hdr = "bearer-b"
        /\ req[s].qnum["limit"] = Absent
        /\ req[s].qnum["offset"] = <<"int", 1>>
        /\ invoked[s][1].claims = "claims-b"
        /\ invoked[s][1].params.qnum["limit"] = <<"None", 0>>

----------------------------------------------------------------------------
(* Every request is answered once *)

\* how often the stage occurs in the request's trace
Occurrences(s, name) ==
    Cardinality({ i \in 1..Len(trace[s]) : trace[s][i] = name })

\* at most one response is built and sent for the request, and handler and
\* tasks have nothing left to do once it is built
OneResponse(s) ==
    /\ Occurrences(s, "ResponseBuilt") <= 1
    /\ Occurrences(s, "Sent") <= 1
    /\ Responded(s) <=> Occurrences(s, "ResponseBuilt") = 1
    /\ Responded(s) => task[s] = None

----------------------------------------------------------------------------
(* The two 401 paths *)

\* C26: on a route that requires authentication, the response built when
\* the handler returns Status401_Unauthorized reads the same as the
\* dispatcher's response for absent claims: status 401, an empty body, no
\* header; the handler was invoked once on the first path and not at all on
\* the second.
C26_Handler401LikeDispatcher401 ==
    \A s, t \in Slots :
        (/\ req[s].op \in C1_Ops /\ req[t].op = req[s].op
         /\ Responded(s) /\ Responded(t)
         /\ ResolvedNone(s)
         /\ outcome[t].ok /\ outcome[t].variant = "Status401_Unauthorized") =>
            /\ Bytes(s) = Bytes(t)
            /\ Bytes(t) = <<401, {}, <<>>>>
            /\ invoked[s] = <<>>
            /\ Len(invoked[t]) = 1

C26_Witness ==
    /\ pc[1] = "Sent" /\ pc[2] = "Sent"
    /\ req[1].op = "create_article" /\ req[2].op = "create_article"
    /\ ResolvedNone(1)
    /\ outcome[2].variant = "Status401_Unauthorized"
    /\ Len(invoked[2]) = 1
    /\ Bytes(1) = Bytes(2)

----------------------------------------------------------------------------
(* The string conversions: the empty string *)

\* FromStr has returned
Read == rt.stage \in {"parsed", "reparsed"}

\* every Option field of the printed value is None
AllNone ==
    \A i \in 1..Len(Schema(rt.sent.model)) :
        /\ ~Schema(rt.sent.model)[i].required
        /\ rt.sent.value[Schema(rt.sent.model)[i].key] = NoneOf

\* C27: FromStr of the empty string returns "Missing value while parsing
\* <Model>" for every model, also for the models whose fields are all
\* optional; so a value that Display prints as the empty string does not
\* parse back: an UpdateArticle or UpdateUser with no field set and every
\* CreateArticleRequest print the empty string and get that error.
C27_EmptyStringIsMissingValue ==
    /\ (Read /\ rt.val.text = <<>>) =>
           rt.val.result = Err(MissingValue(rt.sent.model))
    /\ (/\ rt.stage = "reparsed"
        /\ \/ rt.sent.model = "CreateArticleRequest"
           \/ rt.sent.model \in {"UpdateArticle", "UpdateUser"} /\ AllNone) =>
           /\ rt.val.text = <<>>
           /\ ~rt.val.result.ok

C27_Witness ==
    /\ rt.stage = "reparsed"
    /\ rt.sent.model = "UpdateUser" /\ AllNone
    /\ rt.val.text = <<>>
    /\ rt.val.result = Err(MissingValue("UpdateUser"))


----------------------------------------------------------------------------
(* The string conversions: round trip of the scalar models *)

ScalarModels ==
    {"User", "NewUser", "LoginUser", "Profile", "NewComment",
     "UpdateArticle", "UpdateUser"}

\* the text of a String field of the printed value, "" for an Option that
\* is None
TextOf(f) ==
    LET x == rt.sent.value[f.key]
    IN  IF f.required THEN x ELSE IF x = NoneOf THEN <<>> ELSE x[2]

\* no String field of the printed value contains a comma
CommaFree ==
    \A i \in 1..Len(Schema(rt.sent.model)) :
        Schema(rt.sent.model)[i].kind = "String" =>
            \A j \in 1..Len(TextOf(Schema(rt.sent.model)[i])) :
                TextOf(Schema(rt.sent.model)[i])[j] # Comma

\* C28: for User, NewUser, LoginUser, Profile, NewComment, and for an
\* UpdateArticle or UpdateUser with at least one field set, reading back
\* what Display printed gives the printed value again, whenever no string
\* field holds a comma; empty strings and strings equal to a field name are
\* included.
C28_ScalarRoundTrip ==
    (/\ rt.stage = "reparsed"
     /\ rt.sent.model \in ScalarModels
     /\ CommaFree
     /\ ~AllNone) =>
        /\ rt.val.result.ok
        /\ rt.val.result.val = rt.sent.value

C28_Witness ==
    /\ rt.stage = "reparsed"
    /\ rt.sent.model = "Profile"
    /\ rt.sent.value.username = <<"username">>
    /\ rt.sent.value.bio = <<>>
    /\ ~rt.sent.value.following
    /\ rt.val.result = Ok(rt.sent.value)


----------------------------------------------------------------------------
(* The string conversions: containers *)

\* the pieces of the text FromStr has read
Pieces == Split(rt.val.text)

\* piece i is in a key position, has a value after it and names a container
ContainerKeyAt(i) ==
    /\ i % 2 = 1 /\ i + 1 <= Len(Pieces)
    /\ IsKey(rt.sent.model, Pieces[i])
    /\ FieldOf(rt.sent.model, Pieces[i]).kind = "container"

\* the key,value pair at piece i is read without error
PairReads(i) ==
    /\ IsKey(rt.sent.model, Pieces[i])
    /\ FieldOf(rt.sent.model, Pieces[i]).kind # "container"
    /\ ParseValue(FieldOf(rt.sent.model, Pieces[i]).kind, Pieces[i + 1]).ok

\* the printed value is an Article, a GenericErrorModelErrors, or a
\* NewArticle whose tag_list is Some
PrintsContainer ==
    \/ rt.sent.model \in {"Article", "GenericErrorModelErrors"}
    \/ rt.sent.model = "NewArticle" /\ rt.sent.value.tagList # NoneOf

----------------------------------------------------------------------------
(* The string conversions: the order of FromStr's checks *)

\* the positions of the keys
KeyPositions == { i \in 1..Len(Pieces) : i % 2 = 1 }

\* every pair before piece i is read without error
ScannedTo(i) == \A j \in KeyPositions : j < i => PairReads(j)

\* the whole text is pairs that are read without error
ScannedAll == Len(Pieces) % 2 = 0 /\ ScannedTo(Len(Pieces) + 1)

\* the positions where the key of field f stands
Occurs(f) == { i \in KeyPositions : Pieces[i] = <<f.key>> }

\* the required fields, by index in the declaration, that no key names
MissingFields ==
    { n \in 1..Len(Schema(rt.sent.model)) :
        /\ Schema(rt.sent.model)[n].required
        /\ Occurs(Schema(rt.sent.model)[n]) = {} }

\* the value at the first occurrence of the key of field f
FirstValue(f) ==
    ParseValue(f.kind,
               Pieces[1 + CHOOSE i \in Occurs(f) : \A j \in Occurs(f) : i <= j]).val

\* C30: FromStr reads its input as key,value pieces split on commas, left
\* to right, and returns the first error it meets: "Missing value" for a key
\* with no piece after it, decided before the key is looked at, so for an
\* unknown key too; "Unexpected key" for an unknown key that has a value;
\* "<field> missing in <Model>" only when the whole input was read without
\* error, for the first required field in declaration order that no key
\* names.  Otherwise it returns the value in which every field holds the
\* value of the first occurrence of its key and an optional field that no
\* key names is None.
C30_FirstErrorInOrder ==
    Read =>
        /\ \A i \in KeyPositions :
               ScannedTo(i) =>
                   /\ i = Len(Pieces) =>
                          rt.val.result = Err(MissingValue(rt.sent.model))
                   /\ (i < Len(Pieces) /\ ~IsKey(rt.sent.model, Pieces[i])) =>
                          rt.val.result = Err(UnexpectedKey(rt.sent.model))
        /\ (ScannedAll /\ MissingFields # {}) =>
               rt.val.result =
                   Err(FieldMissing(
                         Schema(rt.sent.model)[CHOOSE n \in MissingFields :
                                                 \A k \in MissingFields : n <= k].key,
                         rt.sent.model))
        /\ (\E k \in Keys(rt.sent.model) :
                rt.val.result = Err(FieldMissing(k, rt.sent.model))) => ScannedAll
        /\ (ScannedAll /\ MissingFields = {}) =>
               /\ rt.val.result.ok
               /\ \A n \in 1..Len(Schema(rt.sent.model)) :
                      LET f == Schema(rt.sent.model)[n]
                      IN  rt.val.result.val[f.key] =
                              IF Occurs(f) = {} THEN NoneOf
                              ELSE IF f.required THEN FirstValue(f)
                              ELSE SomeOf(FirstValue(f))

C30_Witness ==
    /\ rt.stage = "parsed"
    /\ rt.sent.model = "UpdateUser"
    /\ Pieces = << <<"email">>, <<"a">>, <<"email">>, <<"zz">> >>
    /\ rt.val.result.ok
    /\ rt.val.result.val.email = SomeOf(<<"a">>)
    /\ rt.val.result.val.password = NoneOf


====
